---- MODULE Spec2Model ----
(***************************************************************************)
(* Measuring a 4-port with the 1.5-port NanoVNA V2 (Matched Port           *)
(* technique): the acquisition loop, the offline TwoPortOnePath            *)
(* calibration and the assembly of the 12 corrected 2-port results into    *)
(* one 4-port network, as scripted in                                       *)
(* doc/source/examples/metrology/NanoVNA_V2_4port-splitter.ipynb.          *)
(*                                                                         *)
(* Indices are 0-based as in the notebook.  S-parameter arrays (f x n x n)  *)
(* are abstracted to one symbolic value per matrix entry; the frequency    *)
(* axis is carried by the network's `frequency` (a sweep grid).            *)
(***************************************************************************)
EXTENDS Integers, Sequences, FiniteSets, TLC

VARIABLES
    pc,            \* position in the scripts
    err,           \* the exception that aborted the computation ("none" if none)
    dut,           \* true S-matrix of the device under test (environment)
    sweep,         \* sweep grid configured on the instrument
    files,         \* ./data_MiniCircuits_splitter: file name -> stored network
    i_src, i_sink, i_recv,                       \* loop variables
    nw_raw,                                      \* acquisition cell
    short_raw, open_raw, match_raw, thru_raw,    \* calibration cell
    line, cal,
    splitter_cal,                                \* assembly cell
    dut_raw_fwd, dut_raw_rev, dut_cal,
    hist,          \* history of the operations performed (for the properties)
    f_start, f_stop, f_step, num,                \* sweep configuration (MHz)
    Z_0, Z_L, Gamma0, swr,                       \* transmission-line tutorial
    todo,          \* port pairs left to the loop over the unordered pairs
    ref            \* the 4-port assembled by the loop over the unordered pairs

vars == <<pc, err, dut, sweep, files, i_src, i_sink, i_recv, nw_raw,
          short_raw, open_raw, match_raw, thru_raw, line, cal,
          splitter_cal, dut_raw_fwd, dut_raw_rev, dut_cal, hist,
          f_start, f_stop, f_step, num, Z_0, Z_L, Gamma0, swr, todo, ref>>

(***************************************************************************)
(* Bounds of the model                                                     *)
(***************************************************************************)
\* raw S-parameter readings of the uniform devices range over 0..MaxVal
MaxVal == 1
\* number of different sweep grids a stored network may carry
MaxSweep == 2

(***************************************************************************)
(* Program constants                                                       *)
(***************************************************************************)
\* ports of the DUT in the acquisition cell
n_ports == 4
\* literal port count of the assembly cell: np.zeros((f, 4, 4)), range(4)
n_asm == 4
\* arguments of the TwoPortOnePath constructor
n_thrus == 1
source_port == 1

\* longest list of standards handed to the calibration constructor
MaxStds == 4

\* impedances tried by the transmission-line functions: 25, 50, ..., 25*MaxZ Ohm
MaxZ == 10

\* largest frequency of the configured sweeps other than the notebook's, in MHz
MaxF == 5

Sweeps == 1..MaxSweep
None == [kind |-> "none"]
range(n) == 0..(n - 1)

(***************************************************************************)
(* Environment: the device under test and what the instrument reads        *)
(***************************************************************************)
\* a device whose ports all look alike: reflection r, transmission t above
\* and u below the diagonal (reciprocal when t = u)
Uniform(r, t, u) ==
    [i \in range(n_ports) |-> [j \in range(n_ports) |->
        IF i = j THEN r ELSE IF i < j THEN t ELSE u]]

\* a device whose 16 S-parameters are pairwise different: S_ij reads 10*i + j
Generic ==
    [i \in range(n_ports) |-> [j \in range(n_ports) |-> 10 * (i + 1) + (j + 1)]]

Duts == {Uniform(r, t, u) : r \in 0..MaxVal, t \in 0..MaxVal, u \in 0..MaxVal}
            \cup {Generic}

\* nanovna.get_snp_network(ports=(0, 1)) with vna_p1 on DUT port p1 and vna_p2
\* on DUT port p2: a 2-port network holding the data as S11 and S21
get_snp_network(d, p1, p2, g) ==
    [kind |-> "network", name |-> "", frequency |-> g, nports |-> 2,
     s |-> [r \in range(2) |-> [c \in range(2) |->
              IF c = 0 THEN (IF r = 0 THEN d[p1][p1] ELSE d[p2][p1]) ELSE 0]]]

(***************************************************************************)
(* Persisted network files.  A path of the data directory is its base name *)
(* and its extension.                                                      *)
(***************************************************************************)
Path(base, ext) == [base |-> base, ext |-> ext]

\* 'dut_raw_{}{}'.format(a, b)
Format2(a, b) == "dut_raw_" \o ToString(a) \o ToString(b)

\* the file named after the unordered pair of ports
AcqFileName_Unordered(src, sink) ==
    Path(Format2((IF sink > src THEN sink ELSE src) + 1,
                 (IF sink > src THEN src ELSE sink) + 1), "")

\* file name written by the acquisition loop for (i_src, i_sink)
AcqFileName(src, sink) == Path(Format2(sink + 1, src + 1), "")

\* the forward file read with the two indices exchanged
FwdFileName_Swapped(src, recv) == Path(Format2(src + 1, recv + 1), "s2p")

\* file names read by the assembly loop for (i_src, i_recv)
FwdFileName(src, recv) == Path(Format2(recv + 1, src + 1), "s2p")
RevFileName(src, recv) == Path(Format2(src + 1, recv + 1), "s2p")

\* Network.write_touchstone(filename): the extension reflects the port count
\* and is appended when the file name has none
TouchstoneName(p, nw) ==
    IF p.ext = "" THEN Path(p.base, "s" \o ToString(nw.nports) \o "p") ELSE p

write_touchstone(fs, p, nw) ==
    (TouchstoneName(p, nw) :> [frequency |-> nw.frequency, nports |-> nw.nports,
                                s |-> nw.s]) @@ fs

\* skrf.Network(path): the stored network, named after the file
Network(fs, p) ==
    [kind |-> "network", name |-> p.base, frequency |-> fs[p].frequency,
     nports |-> fs[p].nports, s |-> fs[p].s]

\* a raw measurement of calibration standard `base`, stored with sweep grid g
StdFile(base, g) ==
    [kind |-> "network", name |-> base, frequency |-> g, nports |-> 2,
     s |-> [r \in range(2) |-> [c \in range(2) |-> 0]]]

(***************************************************************************)
(* Ideal responses: skrf.DefinedGammaZ0(frequency, Z0).short(nports=2) ... *)
(***************************************************************************)
DefinedGammaZ0(f, z0) == [kind |-> "media", frequency |-> f, Z0 |-> z0]

Ideal(ln, std) ==
    [kind |-> "network", name |-> std, frequency |-> ln.frequency, nports |-> 2,
     s |-> [r \in range(2) |-> [c \in range(2) |->
              CASE std = "short" -> (IF r = c THEN -1 ELSE 0)
                [] std = "open"  -> (IF r = c THEN 1 ELSE 0)
                [] std = "match" -> 0
                [] OTHER         -> (IF r = c THEN 0 ELSE 1)]]]

(***************************************************************************)
(* TwoPortOnePath: constructor, run() and apply_cal()                      *)
(***************************************************************************)
SeqRange(q) == {q[k] : k \in 1..Len(q)}

\* the constructor comparing the two counts only, not the port counts
CalError_CountOnly(ideals, measured) ==
    IF Len(ideals) # Len(measured)
    THEN "InsufficientDataError"
    ELSE IF \E a, b \in SeqRange(ideals) \cup SeqRange(measured) :
                a.frequency # b.frequency
    THEN "FrequencyMismatchError"
    ELSE "none"

\* the error the constructor signals for these standards, "none" if none
CalError(ideals, measured) ==
    IF Len(ideals) # Len(measured)
          \/ \E nw \in SeqRange(ideals) \cup SeqRange(measured) : nw.nports # 2
    THEN "InsufficientDataError"
    ELSE IF \E a, b \in SeqRange(ideals) \cup SeqRange(measured) :
                a.frequency # b.frequency
    THEN "FrequencyMismatchError"
    ELSE "none"

TwoPortOnePath(ideals, measured, nt, sp) ==
    [kind |-> "cal", ideals |-> ideals, measured |-> measured,
     n_thrus |-> nt, source_port |-> sp, coefs |-> None]

\* cal.run(): the error terms solved from the standards, pairing ideals[k]
\* with measured[k]
Solve(c) ==
    [kind |-> "coefs", frequency |-> c.measured[1].frequency,
     terms |-> [k \in 1..Len(c.measured) |->
                  <<c.ideals[k].name, c.measured[k].name>>]]

\* the error apply_cal signals for this pair of raw measurements
ApplyError(c, fwd, rev) ==
    IF fwd.frequency # c.coefs.frequency \/ rev.frequency # c.coefs.frequency
    THEN "FrequencyMismatchError"
    ELSE "none"

\* the raw 2-port seen by the correction: S11, S21 of the forward measurement
\* and, port-flipped, S21, S11 of the reverse measurement
Combined(fwd, rev) ==
    [r \in range(2) |-> [c \in range(2) |->
        IF c = 0 THEN fwd.s[r][0] ELSE rev.s[1 - r][0]]]

\* corrected entry (r, c): a function of the error terms and of the four raw
\* readings as seen from that entry
Corrected(k, m, r, c) ==
    [kind |-> "cal", coefs |-> k,
     m |-> <<m[r][c], m[r][1 - c], m[1 - r][c], m[1 - r][1 - c]>>]

apply_cal(c, fwd, rev) ==
    [kind |-> "network", name |-> fwd.name, frequency |-> fwd.frequency,
     nports |-> 2,
     s |-> [r \in range(2) |-> [cc \in range(2) |->
              Corrected(c.coefs, Combined(fwd, rev), r, cc)]]]

\* the empty array np.zeros((f, 4, 4)) of the 4-port to be filled
Zero == [kind |-> "zero"]
zeros(n) == [i \in range(n) |-> [j \in range(n) |-> Zero]]

(***************************************************************************)
(* History of operations                                                   *)
(***************************************************************************)
Log(e) == hist' = Append(hist, e)

Abort(e) == /\ pc' = "error"
            /\ err' = e

(***************************************************************************)
(* Initial state: nothing acquired, nothing loaded                         *)
(***************************************************************************)
Init ==
    /\ pc = "acq_cfg"
    /\ err = "none"
    /\ dut \in Duts
    /\ sweep = 0
    /\ files = << >>
    /\ i_src = 0 /\ i_sink = 0 /\ i_recv = 0
    /\ nw_raw = None
    /\ short_raw = None /\ open_raw = None /\ match_raw = None /\ thru_raw = None
    /\ line = None /\ cal = None
    /\ splitter_cal = None
    /\ dut_raw_fwd = None /\ dut_raw_rev = None /\ dut_cal = None
    /\ hist = << >>
    /\ f_start = None /\ f_stop = None /\ f_step = None /\ num = None
    /\ Z_0 = None /\ Z_L = None /\ Gamma0 = None /\ swr = None
    /\ todo = {} /\ ref = None

sweep_vars == <<f_start, f_stop, f_step, num>>
tline_vars == <<Z_0, Z_L, Gamma0, swr>>
other_vars == <<sweep_vars, tline_vars, todo, ref>>
acq_vars == <<sweep, files, i_sink, nw_raw>>
cal_vars == <<short_raw, open_raw, match_raw, thru_raw, line, cal>>
asm_vars == <<splitter_cal, i_recv, dut_raw_fwd, dut_raw_rev, dut_cal>>

(***************************************************************************)
(* Data acquisition (cell 3ec0342f)                                        *)
(***************************************************************************)
\* nanovna.set_frequency_sweep(f_start, f_stop, num)
SetFrequencySweep ==
    /\ pc = "acq_cfg"
    /\ \E g \in Sweeps : sweep' = g
    /\ i_src' = 0 /\ i_sink' = 0
    /\ pc' = "acq_loop"
    /\ UNCHANGED <<err, dut, files, nw_raw, hist>>
    /\ UNCHANGED cal_vars /\ UNCHANGED asm_vars /\ UNCHANGED other_vars

\* if i_sink != i_src:
AcqBody(src, sink) == sink # src

\* next (i_src, i_sink) of the nested for loops, or the end of the cell
AcqAdvance ==
    IF i_sink + 1 < n_ports
    THEN i_sink' = i_sink + 1 /\ i_src' = i_src /\ pc' = "acq_loop"
    ELSE IF i_src + 1 < n_ports
    THEN i_src' = i_src + 1 /\ i_sink' = 0 /\ pc' = "acq_loop"
    ELSE pc' = "cal_short" /\ UNCHANGED <<i_src, i_sink>>

AcqSkip ==
    /\ pc = "acq_loop"
    /\ ~AcqBody(i_src, i_sink)
    /\ AcqAdvance
    /\ UNCHANGED <<err, dut, sweep, files, nw_raw, hist>>
    /\ UNCHANGED cal_vars /\ UNCHANGED asm_vars /\ UNCHANGED other_vars

\* input('Connect vna_p1 -> dut_p{}, vna_p2 -> dut_p{} ...'); get_snp_network
AcqMeasure ==
    /\ pc = "acq_loop"
    /\ AcqBody(i_src, i_sink)
    /\ nw_raw' = get_snp_network(dut, i_src, i_sink, sweep)
    /\ Log([op |-> "measure", p1 |-> i_src, p2 |-> i_sink])
    /\ pc' = "acq_write"
    /\ UNCHANGED <<err, dut, sweep, files, i_src, i_sink>>
    /\ UNCHANGED cal_vars /\ UNCHANGED asm_vars /\ UNCHANGED other_vars

\* nw_raw.write_touchstone('dut_raw_{}{}'.format(i_sink + 1, i_src + 1))
AcqWrite ==
    /\ pc = "acq_write"
    /\ files' = write_touchstone(files, AcqFileName(i_src, i_sink), nw_raw)
    /\ Log([op |-> "store", p1 |-> i_src, p2 |-> i_sink,
            file |-> TouchstoneName(AcqFileName(i_src, i_sink), nw_raw),
            fresh |-> TouchstoneName(AcqFileName(i_src, i_sink), nw_raw)
                          \notin DOMAIN files])
    /\ AcqAdvance
    /\ UNCHANGED <<err, dut, sweep, nw_raw>>
    /\ UNCHANGED cal_vars /\ UNCHANGED asm_vars /\ UNCHANGED other_vars

(***************************************************************************)
(* Offline calibration (cell 9c902a0e)                                     *)
(***************************************************************************)
\* skrf.Network('cal_<std>_raw.s2p'): the stored standard, whatever sweep grid
\* it was measured with, or an I/O failure
LoadShort ==
    /\ pc = "cal_short"
    /\ \E g \in Sweeps, ok \in BOOLEAN :
          IF ok
          THEN /\ short_raw' = StdFile("cal_short_raw", g)
               /\ Log([op |-> "load_std", nw |-> StdFile("cal_short_raw", g)])
               /\ pc' = "cal_open"
               /\ err' = err
          ELSE /\ Abort("IOError")
               /\ UNCHANGED <<short_raw, hist>>
    /\ UNCHANGED <<dut, i_src, open_raw, match_raw, thru_raw, line, cal>>
    /\ UNCHANGED acq_vars /\ UNCHANGED asm_vars /\ UNCHANGED other_vars

LoadOpen ==
    /\ pc = "cal_open"
    /\ \E g \in Sweeps, ok \in BOOLEAN :
          IF ok
          THEN /\ open_raw' = StdFile("cal_open_raw", g)
               /\ Log([op |-> "load_std", nw |-> StdFile("cal_open_raw", g)])
               /\ pc' = "cal_match"
               /\ err' = err
          ELSE /\ Abort("IOError")
               /\ UNCHANGED <<open_raw, hist>>
    /\ UNCHANGED <<dut, i_src, short_raw, match_raw, thru_raw, line, cal>>
    /\ UNCHANGED acq_vars /\ UNCHANGED asm_vars /\ UNCHANGED other_vars

LoadMatch ==
    /\ pc = "cal_match"
    /\ \E g \in Sweeps, ok \in BOOLEAN :
          IF ok
          THEN /\ match_raw' = StdFile("cal_match_raw", g)
               /\ Log([op |-> "load_std", nw |-> StdFile("cal_match_raw", g)])
               /\ pc' = "cal_thru"
               /\ err' = err
          ELSE /\ Abort("IOError")
               /\ UNCHANGED <<match_raw, hist>>
    /\ UNCHANGED <<dut, i_src, short_raw, open_raw, thru_raw, line, cal>>
    /\ UNCHANGED acq_vars /\ UNCHANGED asm_vars /\ UNCHANGED other_vars

LoadThru ==
    /\ pc = "cal_thru"
    /\ \E g \in Sweeps, ok \in BOOLEAN :
          IF ok
          THEN /\ thru_raw' = StdFile("cal_thru_raw", g)
               /\ Log([op |-> "load_std", nw |-> StdFile("cal_thru_raw", g)])
               /\ pc' = "cal_line"
               /\ err' = err
          ELSE /\ Abort("IOError")
               /\ UNCHANGED <<thru_raw, hist>>
    /\ UNCHANGED <<dut, i_src, short_raw, open_raw, match_raw, line, cal>>
    /\ UNCHANGED acq_vars /\ UNCHANGED asm_vars /\ UNCHANGED other_vars

\* line = skrf.DefinedGammaZ0(frequency=short_raw.frequency, Z0=50)
MakeLine ==
    /\ pc = "cal_line"
    /\ line' = DefinedGammaZ0(short_raw.frequency, 50)
    /\ pc' = "cal_new"
    /\ UNCHANGED <<err, dut, i_src, hist, short_raw, open_raw, match_raw,
                   thru_raw, cal>>
    /\ UNCHANGED acq_vars /\ UNCHANGED asm_vars /\ UNCHANGED other_vars

\* the ideals listed open first, against measured=[short_raw, open_raw, ...]
CalIdeals_OpenFirst(ln) ==
    <<Ideal(ln, "open"), Ideal(ln, "short"), Ideal(ln, "match"), Ideal(ln, "thru")>>

\* ideals=[line.short(nports=2), line.open(nports=2), line.match(nports=2),
\*         line.thru()]
CalIdeals(ln) ==
    <<Ideal(ln, "short"), Ideal(ln, "open"), Ideal(ln, "match"), Ideal(ln, "thru")>>

\* measured=[short_raw, open_raw, match_raw, thru_raw]
CalMeasured == <<short_raw, open_raw, match_raw, thru_raw>>

\* cal = TwoPortOnePath(ideals=..., measured=..., n_thrus=1, source_port=1)
MakeCal ==
    /\ pc = "cal_new"
    /\ IF CalError(CalIdeals(line), CalMeasured) = "none"
       THEN /\ cal' = TwoPortOnePath(CalIdeals(line), CalMeasured,
                                     n_thrus, source_port)
            /\ pc' = "cal_run"
            /\ err' = err
       ELSE /\ Abort(CalError(CalIdeals(line), CalMeasured))
            /\ cal' = cal
    /\ UNCHANGED <<dut, i_src, hist, short_raw, open_raw, match_raw, thru_raw,
                   line>>
    /\ UNCHANGED acq_vars /\ UNCHANGED asm_vars /\ UNCHANGED other_vars

\* cal.run() called twice in a row
RunCal_Twice ==
    /\ pc = "cal_run"
    /\ cal' = [cal EXCEPT !.coefs = Solve(cal)]
    /\ hist' = hist \o <<[op |-> "run", coefs |-> Solve(cal)],
                         [op |-> "run", coefs |-> Solve(cal)]>>
    /\ pc' = "asm_new"
    /\ UNCHANGED <<err, dut, i_src, short_raw, open_raw, match_raw, thru_raw,
                   line>>
    /\ UNCHANGED acq_vars /\ UNCHANGED asm_vars /\ UNCHANGED other_vars

\* cal.run()
RunCal ==
    /\ pc = "cal_run"
    /\ cal' = [cal EXCEPT !.coefs = Solve(cal)]
    /\ Log([op |-> "run", coefs |-> Solve(cal)])
    /\ pc' = "asm_new"
    /\ UNCHANGED <<err, dut, i_src, short_raw, open_raw, match_raw, thru_raw,
                   line>>
    /\ UNCHANGED acq_vars /\ UNCHANGED asm_vars /\ UNCHANGED other_vars

(***************************************************************************)
(* Assembly of the 4-port (cell 20373318)                                  *)
(***************************************************************************)
\* the aggregate created on a sweep grid of its own instead of
\* short_raw.frequency
MakeAggregate_OwnGrid ==
    /\ pc = "asm_new"
    /\ splitter_cal' = [kind |-> "network", name |-> "",
                        frequency |-> 1, nports |-> n_asm,
                        s |-> zeros(n_asm)]
    /\ i_src' = 0 /\ i_recv' = 0
    /\ pc' = "asm_loop"
    /\ UNCHANGED <<err, dut, hist, dut_raw_fwd, dut_raw_rev, dut_cal>>
    /\ UNCHANGED acq_vars /\ UNCHANGED cal_vars /\ UNCHANGED other_vars

\* s = np.zeros((len(short_raw.frequency), 4, 4), dtype=complex)
\* splitter_cal = skrf.Network(frequency=short_raw.frequency, s=s)
MakeAggregate ==
    /\ pc = "asm_new"
    /\ splitter_cal' = [kind |-> "network", name |-> "",
                        frequency |-> short_raw.frequency, nports |-> n_asm,
                        s |-> zeros(n_asm)]
    /\ i_src' = 0 /\ i_recv' = 0
    /\ pc' = "asm_loop"
    /\ UNCHANGED <<err, dut, hist, dut_raw_fwd, dut_raw_rev, dut_cal>>
    /\ UNCHANGED acq_vars /\ UNCHANGED cal_vars /\ UNCHANGED other_vars

\* if i_src != i_recv:
AsmBody(src, recv) == src # recv

\* the loop bounds off by one: range(3) over the ports of the 4-port
AsmAdvance_Range3 ==
    IF i_recv + 1 < n_asm - 1
    THEN i_recv' = i_recv + 1 /\ i_src' = i_src /\ pc' = "asm_loop"
    ELSE IF i_src + 1 < n_asm - 1
    THEN i_src' = i_src + 1 /\ i_recv' = 0 /\ pc' = "asm_loop"
    ELSE pc' = "done" /\ UNCHANGED <<i_src, i_recv>>

\* the two for loops nested the other way round: i_src runs in the inner loop
AsmAdvance_InnerSrc ==
    IF i_src + 1 < n_asm
    THEN i_src' = i_src + 1 /\ i_recv' = i_recv /\ pc' = "asm_loop"
    ELSE IF i_recv + 1 < n_asm
    THEN i_recv' = i_recv + 1 /\ i_src' = 0 /\ pc' = "asm_loop"
    ELSE pc' = "done" /\ UNCHANGED <<i_src, i_recv>>

\* next (i_src, i_recv) of the nested for loops, or the end of the cell
AsmAdvance ==
    IF i_recv + 1 < n_asm
    THEN i_recv' = i_recv + 1 /\ i_src' = i_src /\ pc' = "asm_loop"
    ELSE IF i_src + 1 < n_asm
    THEN i_src' = i_src + 1 /\ i_recv' = 0 /\ pc' = "asm_loop"
    ELSE pc' = "done" /\ UNCHANGED <<i_src, i_recv>>

AsmSkip ==
    /\ pc = "asm_loop"
    /\ ~AsmBody(i_src, i_recv)
    /\ AsmAdvance
    /\ UNCHANGED <<err, dut, hist, splitter_cal, dut_raw_fwd, dut_raw_rev,
                   dut_cal>>
    /\ UNCHANGED acq_vars /\ UNCHANGED cal_vars /\ UNCHANGED other_vars

\* dut_raw_fwd = skrf.Network('dut_raw_{}{}.s2p'.format(i_recv + 1, i_src + 1))
AsmLoadFwd ==
    /\ pc = "asm_loop"
    /\ AsmBody(i_src, i_recv)
    /\ IF FwdFileName(i_src, i_recv) \notin DOMAIN files
       THEN /\ Abort("FileNotFoundError")
            /\ UNCHANGED <<dut_raw_fwd, hist>>
       ELSE \E ok \in BOOLEAN :
               IF ok
               THEN /\ dut_raw_fwd' = Network(files, FwdFileName(i_src, i_recv))
                    /\ Log([op |-> "load", role |-> "fwd",
                            it |-> <<i_src, i_recv>>,
                            file |-> FwdFileName(i_src, i_recv)])
                    /\ pc' = "asm_rev"
                    /\ err' = err
               ELSE /\ Abort("IOError")
                    /\ UNCHANGED <<dut_raw_fwd, hist>>
    /\ UNCHANGED <<dut, i_src, i_recv, splitter_cal, dut_raw_rev, dut_cal>>
    /\ UNCHANGED acq_vars /\ UNCHANGED cal_vars /\ UNCHANGED other_vars

\* dut_raw_rev = skrf.Network('dut_raw_{}{}.s2p'.format(i_src + 1, i_recv + 1))
AsmLoadRev ==
    /\ pc = "asm_rev"
    /\ IF RevFileName(i_src, i_recv) \notin DOMAIN files
       THEN /\ Abort("FileNotFoundError")
            /\ UNCHANGED <<dut_raw_rev, hist>>
       ELSE \E ok \in BOOLEAN :
               IF ok
               THEN /\ dut_raw_rev' = Network(files, RevFileName(i_src, i_recv))
                    /\ Log([op |-> "load", role |-> "rev",
                            it |-> <<i_src, i_recv>>,
                            file |-> RevFileName(i_src, i_recv)])
                    /\ pc' = "asm_apply"
                    /\ err' = err
               ELSE /\ Abort("IOError")
                    /\ UNCHANGED <<dut_raw_rev, hist>>
    /\ UNCHANGED <<dut, i_src, i_recv, splitter_cal, dut_raw_fwd, dut_cal>>
    /\ UNCHANGED acq_vars /\ UNCHANGED cal_vars /\ UNCHANGED other_vars

\* the reverse measurement port-flipped in place by the correction
AsmApplyCal_FlipsReverse ==
    /\ pc = "asm_apply"
    /\ IF ApplyError(cal, dut_raw_fwd, dut_raw_rev) = "none"
       THEN /\ dut_cal' = apply_cal(cal, dut_raw_fwd, dut_raw_rev)
            /\ dut_raw_rev' =
                  [dut_raw_rev EXCEPT !.s = [r \in range(2) |-> [c \in range(2) |->
                                                dut_raw_rev.s[1 - r][1 - c]]]]
            /\ Log([op |-> "apply", it |-> <<i_src, i_recv>>,
                    fwd |-> dut_raw_fwd, rev |-> dut_raw_rev,
                    coefs |-> cal.coefs,
                    out |-> apply_cal(cal, dut_raw_fwd, dut_raw_rev)])
            /\ pc' = "asm_w11"
            /\ err' = err
       ELSE /\ Abort(ApplyError(cal, dut_raw_fwd, dut_raw_rev))
            /\ UNCHANGED <<dut_cal, dut_raw_rev, hist>>
    /\ UNCHANGED <<dut, i_src, i_recv, splitter_cal, dut_raw_fwd>>
    /\ UNCHANGED acq_vars /\ UNCHANGED cal_vars /\ UNCHANGED other_vars

\* dut_cal = cal.apply_cal((dut_raw_fwd, dut_raw_rev))
AsmApplyCal ==
    /\ pc = "asm_apply"
    /\ IF ApplyError(cal, dut_raw_fwd, dut_raw_rev) = "none"
       THEN /\ dut_cal' = apply_cal(cal, dut_raw_fwd, dut_raw_rev)
            /\ Log([op |-> "apply", it |-> <<i_src, i_recv>>,
                    fwd |-> dut_raw_fwd, rev |-> dut_raw_rev,
                    coefs |-> cal.coefs,
                    out |-> apply_cal(cal, dut_raw_fwd, dut_raw_rev)])
            /\ pc' = "asm_w11"
            /\ err' = err
       ELSE /\ Abort(ApplyError(cal, dut_raw_fwd, dut_raw_rev))
            /\ UNCHANGED <<dut_cal, hist>>
    /\ UNCHANGED <<dut, i_src, i_recv, splitter_cal, dut_raw_fwd, dut_raw_rev>>
    /\ UNCHANGED acq_vars /\ UNCHANGED cal_vars /\ UNCHANGED other_vars

\* splitter_cal.s[:, row, col] = dut_cal.s[:, r, c]
Assign(row, col, r, c) ==
    /\ splitter_cal' = [splitter_cal EXCEPT !.s[row][col] = dut_cal.s[r][c]]
    /\ Log([op |-> "write", it |-> <<i_src, i_recv>>, row |-> row, col |-> col,
            el |-> <<r, c>>, val |-> dut_cal.s[r][c]])

\* splitter_cal.s[:, i_src, i_src] = dut_cal.s[:, 0, 0]
AsmWrite11 ==
    /\ pc = "asm_w11"
    /\ Assign(i_src, i_src, 0, 0)
    /\ pc' = "asm_w21"
    /\ UNCHANGED <<err, dut, i_src, i_recv, dut_raw_fwd, dut_raw_rev, dut_cal>>
    /\ UNCHANGED acq_vars /\ UNCHANGED cal_vars /\ UNCHANGED other_vars

\* the S21 write indexed with the acquisition cell's loop variable
AsmWrite21_WrongColumn ==
    /\ pc = "asm_w21"
    /\ Assign(i_recv, i_sink, 1, 0)
    /\ pc' = "asm_w12"
    /\ UNCHANGED <<err, dut, i_src, i_recv, dut_raw_fwd, dut_raw_rev, dut_cal>>
    /\ UNCHANGED acq_vars /\ UNCHANGED cal_vars /\ UNCHANGED other_vars

\* splitter_cal.s[:, i_recv, i_src] = dut_cal.s[:, 1, 0]
AsmWrite21 ==
    /\ pc = "asm_w21"
    /\ Assign(i_recv, i_src, 1, 0)
    /\ pc' = "asm_w12"
    /\ UNCHANGED <<err, dut, i_src, i_recv, dut_raw_fwd, dut_raw_rev, dut_cal>>
    /\ UNCHANGED acq_vars /\ UNCHANGED cal_vars /\ UNCHANGED other_vars

\* the S12 write taking dut_cal's S21
AsmWrite12_FromS21 ==
    /\ pc = "asm_w12"
    /\ Assign(i_src, i_recv, 1, 0)
    /\ pc' = "asm_w22"
    /\ UNCHANGED <<err, dut, i_src, i_recv, dut_raw_fwd, dut_raw_rev, dut_cal>>
    /\ UNCHANGED acq_vars /\ UNCHANGED cal_vars /\ UNCHANGED other_vars

\* splitter_cal.s[:, i_src, i_recv] = dut_cal.s[:, 0, 1]
AsmWrite12 ==
    /\ pc = "asm_w12"
    /\ Assign(i_src, i_recv, 0, 1)
    /\ pc' = "asm_w22"
    /\ UNCHANGED <<err, dut, i_src, i_recv, dut_raw_fwd, dut_raw_rev, dut_cal>>
    /\ UNCHANGED acq_vars /\ UNCHANGED cal_vars /\ UNCHANGED other_vars

\* splitter_cal.s[:, i_recv, i_recv] = dut_cal.s[:, 1, 1]
AsmWrite22 ==
    /\ pc = "asm_w22"
    /\ Assign(i_recv, i_recv, 1, 1)
    /\ AsmAdvance
    /\ UNCHANGED <<err, dut, dut_raw_fwd, dut_raw_rev, dut_cal>>
    /\ UNCHANGED acq_vars /\ UNCHANGED cal_vars /\ UNCHANGED other_vars

Next ==
    \/ SetFrequencySweep \/ AcqSkip \/ AcqMeasure \/ AcqWrite
    \/ LoadShort \/ LoadOpen \/ LoadMatch \/ LoadThru
    \/ MakeLine \/ MakeCal \/ RunCal
    \/ MakeAggregate \/ AsmSkip \/ AsmLoadFwd \/ AsmLoadRev \/ AsmApplyCal
    \/ AsmWrite11 \/ AsmWrite21 \/ AsmWrite12 \/ AsmWrite22

Spec == Init /\ [][Next]_vars

(***************************************************************************)
(* Helpers of the properties                                               *)
(***************************************************************************)
\* positions of the history holding an operation of kind o
Ev(o) == {k \in 1..Len(hist) : hist[k].op = o}

Ports == range(n_asm)

\* the four aggregate entries of the pair (p, q)
Touched(p, q) == {<<p, p>>, <<q, p>>, <<p, q>>, <<q, q>>}

\* the writes of iteration it into entry (i, j)
WritesOf(it, i, j) ==
    {w \in Ev("write") : hist[w].it = it /\ hist[w].row = i /\ hist[w].col = j}

\* the apply_cal call of iteration it
ApplyOf(it) == {a \in Ev("apply") : hist[a].it = it}

\* iterations whose four writes are all done
Completed == {hist[w].it : w \in {x \in Ev("write") : hist[x].el = <<1, 1>>}}

----------------------------------------------------------------------------
\* C1: Multiport assembly completeness.  When the assembly loop has run over
\* every ordered pair of the 4 ports, each of the 16 entries of
\* splitter_cal.s has been written at least once, holds a value taken from a
\* calibrated 2-port result, and none is left at its initial (zero) value.
C1_AssemblyComplete ==
    pc = "done" =>
        \A i \in Ports, j \in Ports :
            /\ \E w \in Ev("write") : hist[w].row = i /\ hist[w].col = j
            /\ splitter_cal.s[i][j] # Zero
            /\ \E a \in Ev("apply") : \E r \in range(2), c \in range(2) :
                   splitter_cal.s[i][j] = hist[a].out.s[r][c]

\* the loop has finished and all 12 * 4 writes were done
C1_Witness ==
    /\ pc = "done"
    /\ Cardinality(Ev("write")) = 48
    /\ dut = Generic

----------------------------------------------------------------------------
\* C2: Frame of one assembly step.  A step of the iteration for the ordered
\* pair (i_src, i_recv) changes no aggregate entry other than (i_src,i_src),
\* (i_recv,i_src), (i_src,i_recv), (i_recv,i_recv); a step of an iteration
\* with i_src = i_recv changes no entry at all.
C2_Frame ==
    [][splitter_cal.kind = "network" =>
          \A i \in Ports, j \in Ports :
              (<<i, j>> \notin Touched(i_src, i_recv) \/ i_src = i_recv)
                  => splitter_cal'.s[i][j] = splitter_cal.s[i][j]]_vars

\* iteration (1, 2) has written its four entries while entry (0, 3), written
\* by an earlier iteration, is outside its frame
C2_Witness ==
    /\ dut = Generic
    /\ pc = "asm_loop" /\ i_src = 1 /\ i_recv = 3
    /\ <<1, 2>> \in Completed
    /\ splitter_cal.s[0][3] # Zero
    /\ splitter_cal.s[2][3] = Zero

----------------------------------------------------------------------------
\* the writes into entry (i, j), in the order they happened
WritesTo(i, j) == {w \in Ev("write") : hist[w].row = i /\ hist[w].col = j}

LastOf(S) == CHOOSE w \in S : \A x \in S : x <= w

\* the iteration named as the last one containing port k (0-based)
LastIteration(k) == IF k < 3 THEN <<3, k>> ELSE <<3, 2>>

\* C3: Diagonal last-write-wins.  Every finished iteration over a pair that
\* contains port k overwrites entry (k,k) exactly once, with dut_cal's S11
\* when k = i_src and dut_cal's S22 when k = i_recv, as it is (nothing of the
\* old value is kept); the entry always holds the value of its latest write;
\* after the loop that is the write of iteration (3,k) for k < 3 and of
\* iteration (3,2) for k = 3.
C3_DiagonalLastWrite ==
    /\ \A it \in Completed : \A k \in {it[1], it[2]} :
          /\ Cardinality(WritesOf(it, k, k)) = 1
          /\ \A w \in WritesOf(it, k, k) : \A a \in ApplyOf(it) :
                /\ hist[w].el = (IF k = it[1] THEN <<0, 0>> ELSE <<1, 1>>)
                /\ hist[w].val = hist[a].out.s[hist[w].el[1]][hist[w].el[2]]
    /\ \A k \in Ports :
          WritesTo(k, k) # {} =>
              splitter_cal.s[k][k] = hist[LastOf(WritesTo(k, k))].val
    /\ pc = "done" =>
          \A k \in Ports :
              /\ hist[LastOf(WritesTo(k, k))].it = LastIteration(k)
              /\ \A a \in ApplyOf(LastIteration(k)) :
                    splitter_cal.s[k][k] =
                        (IF k < 3 THEN hist[a].out.s[1][1] ELSE hist[a].out.s[0][0])

\* the loop has finished; entry (0,0) was written six times and the values
\* written differ
C3_Witness ==
    /\ pc = "done"
    /\ dut = Generic
    /\ Cardinality(WritesTo(0, 0)) = 6
    /\ \E w \in WritesTo(0, 0) : hist[w].val # splitter_cal.s[0][0]

----------------------------------------------------------------------------
\* C4: No partial results on error.  When a load or apply_cal fails during
\* the assembly loop, the aggregate holds no calibrated entry written by an
\* earlier iteration.
C4_NoPartialResults ==
    pc = "error" =>
        \/ splitter_cal = None
        \/ \A i \in Ports, j \in Ports : splitter_cal.s[i][j] = Zero

----------------------------------------------------------------------------
StdNames == {"cal_short_raw", "cal_open_raw", "cal_match_raw", "cal_thru_raw"}

\* C5: Calibration lifecycle ordering.  cal.run() happens at most once and
\* only after the four standards are loaded; every apply_cal comes after it
\* and uses the error terms it solved; every write into the aggregate comes
\* after the apply_cal of its iteration and stores an entry of its result;
\* the stored error terms stay as solved; a finished run has made exactly one
\* solve and 12 apply_cal calls.
C5_Lifecycle ==
    /\ Cardinality(Ev("run")) <= 1
    /\ \A k \in Ev("run") :
          /\ \A n \in StdNames :
                \E l \in Ev("load_std") : l < k /\ hist[l].nw.name = n
          /\ cal.coefs = hist[k].coefs
    /\ \A a \in Ev("apply") :
          \E k \in Ev("run") : k < a /\ hist[a].coefs = hist[k].coefs
    /\ \A w \in Ev("write") :
          \E a \in ApplyOf(hist[w].it) :
              /\ a < w
              /\ hist[w].val = hist[a].out.s[hist[w].el[1]][hist[w].el[2]]
    /\ Ev("run") = {} => cal = None \/ cal.coefs = None
    /\ pc = "done" =>
          Cardinality(Ev("run")) = 1 /\ Cardinality(Ev("apply")) = 12

\* a finished run: one solve, 12 corrections, 48 writes
C5_Witness ==
    /\ pc = "done"
    /\ Cardinality(Ev("run")) = 1
    /\ Cardinality(Ev("apply")) = 12
    /\ Cardinality(Ev("write")) = 48

----------------------------------------------------------------------------
\* the data of a network: its sweep grid and its S-parameters
Data(nw) == <<nw.frequency, nw.s>>

----------------------------------------------------------------------------
\* the loads of file f in role ro
LoadsOf(f, ro) == {l \in Ev("load") : hist[l].file = f /\ hist[l].role = ro}

\* C7: Forward/reverse pairing.  In iteration (i_src, i_recv) the forward
\* input is file dut_raw_{i_recv+1}{i_src+1}, acquired with VNA port 1 on DUT
\* port i_src and VNA port 2 on DUT port i_recv, and the reverse input is
\* file dut_raw_{i_src+1}{i_recv+1}, acquired with the two ports exchanged;
\* both files were written by the acquisition loop (no load finds its file
\* missing), apply_cal receives exactly those measurements, and over the
\* whole loop each of the 12 acquired files is used once as forward and once
\* as reverse.
C7_Pairing ==
    /\ err # "FileNotFoundError"
    /\ \A l \in Ev("load") :
          LET p == hist[l].it[1]
              q == hist[l].it[2]
              f == hist[l].role = "fwd"
          IN  /\ hist[l].file = Path(IF f THEN Format2(q + 1, p + 1)
                                          ELSE Format2(p + 1, q + 1), "s2p")
              /\ \E st \in Ev("store") : hist[st].file = hist[l].file
              /\ \A st \in Ev("store") :
                    hist[st].file = hist[l].file =>
                        /\ hist[st].p1 = (IF f THEN p ELSE q)
                        /\ hist[st].p2 = (IF f THEN q ELSE p)
    /\ \A a \in Ev("apply") :
          /\ Data(hist[a].fwd) =
                 Data(get_snp_network(dut, hist[a].it[1], hist[a].it[2], sweep))
          /\ Data(hist[a].rev) =
                 Data(get_snp_network(dut, hist[a].it[2], hist[a].it[1], sweep))
    /\ pc = "done" =>
          /\ Cardinality(Ev("store")) = 12
          /\ \A st \in Ev("store") :
                /\ Cardinality(LoadsOf(hist[st].file, "fwd")) = 1
                /\ Cardinality(LoadsOf(hist[st].file, "rev")) = 1

\* the loop has finished after 12 forward and 12 reverse loads of a device
\* whose measurements all differ
C7_Witness ==
    /\ pc = "done"
    /\ dut = Generic
    /\ Cardinality(Ev("load")) = 24

----------------------------------------------------------------------------
\* C8: Acquisition coverage.  The acquisition loop measures no pair with
\* i_sink = i_src and no ordered pair twice; every file it writes is new, so
\* no measurement overwrites another; when the loop has ended, every ordered
\* pair of distinct ports was measured once and stored under the name
\* dut_raw_{i_sink+1}{i_src+1}: 12 measurements in 12 files.
C8_AcquisitionCoverage ==
    /\ \A m \in Ev("measure") : hist[m].p1 # hist[m].p2
    /\ \A m \in Ev("measure"), x \in Ev("measure") :
          (hist[m].p1 = hist[x].p1 /\ hist[m].p2 = hist[x].p2) => m = x
    /\ \A st \in Ev("store") :
          /\ hist[st].fresh
          /\ hist[st].file.base = Format2(hist[st].p2 + 1, hist[st].p1 + 1)
          /\ \A x \in Ev("store") : hist[x].file = hist[st].file => x = st
    /\ pc \notin {"acq_cfg", "acq_loop", "acq_write"} =>
          /\ \A p \in range(n_ports), q \in range(n_ports) :
                p # q => \E m \in Ev("measure"), st \in Ev("store") :
                            /\ hist[m].p1 = p /\ hist[m].p2 = q /\ st = m + 1
                            /\ hist[st].p1 = p /\ hist[st].p2 = q
          /\ Cardinality(Ev("measure")) = n_ports * (n_ports - 1)
          /\ Cardinality(Ev("measure")) = 12
          /\ Cardinality(DOMAIN files) = 12

\* the acquisition loop has ended with its 12 files written
C8_Witness ==
    /\ pc = "cal_short"
    /\ Cardinality(Ev("store")) = 12
    /\ Cardinality(DOMAIN files) = 12

----------------------------------------------------------------------------
\* the name of the raw measurement of standard std
RawName(std) ==
    CASE std = "short" -> "cal_short_raw"
      [] std = "open"  -> "cal_open_raw"
      [] std = "match" -> "cal_match_raw"
      [] std = "thru"  -> "cal_thru_raw"

\* C9: Standard pairing.  The calibration holds 4 ideals and 4 measured
\* standards; position by position the raw measurement is the one of the
\* standard whose ideal response stands there (short, open, match, through),
\* the error terms are solved from these pairs, n_thrus is 1 and the only
\* through is the last standard.
C9_StandardPairing ==
    cal # None =>
        /\ Len(cal.ideals) = 4 /\ Len(cal.measured) = 4
        /\ {cal.ideals[k].name : k \in 1..4} = {"short", "open", "match", "thru"}
        /\ \A k \in 1..4 : cal.measured[k].name = RawName(cal.ideals[k].name)
        /\ cal.n_thrus = 1
        /\ {k \in 1..4 : cal.ideals[k].name = "thru"} = {4}
        /\ cal.coefs # None =>
              \A k \in 1..4 :
                  cal.coefs.terms[k] =
                      <<cal.ideals[k].name, RawName(cal.ideals[k].name)>>

\* the calibration was created and run
C9_Witness ==
    /\ cal # None
    /\ cal.coefs # None
    /\ pc = "asm_new"

----------------------------------------------------------------------------
\* the sweep grids of the four loaded standards differ
StdMismatch ==
    \E a \in SeqRange(CalMeasured), b \in SeqRange(CalMeasured) :
        a.frequency # b.frequency

\* the sweep grid of a loaded DUT measurement differs from the calibration's
DutMismatch ==
    \/ dut_raw_fwd.frequency # cal.coefs.frequency
    \/ dut_raw_rev.frequency # cal.coefs.frequency

\* C10: Frequency grids must match.  The standards and ideals of a created
\* calibration share short_raw's sweep grid; in every apply_cal made, the
\* forward and the reverse measurement, the error terms, the corrected result
\* and the aggregate 4-port share one sweep grid; creating the calibration
\* from standards whose grids differ, or applying it to a DUT measurement
\* whose grid differs from the calibration's, ends the computation with
\* FrequencyMismatchError and produces no calibration and no corrected result.
C10_FrequencyMatch ==
    /\ [](cal # None =>
             \A nw \in SeqRange(cal.ideals) \cup SeqRange(cal.measured) :
                 nw.frequency = short_raw.frequency)
    /\ [](\A a \in Ev("apply") :
             /\ hist[a].fwd.frequency = hist[a].coefs.frequency
             /\ hist[a].rev.frequency = hist[a].coefs.frequency
             /\ hist[a].out.frequency = hist[a].coefs.frequency
             /\ splitter_cal.frequency = hist[a].coefs.frequency)
    /\ [][(pc = "cal_new" /\ StdMismatch) =>
             /\ pc' = "error" /\ err' = "FrequencyMismatchError"
             /\ cal' = None]_vars
    /\ [][(pc = "asm_apply" /\ DutMismatch) =>
             /\ pc' = "error" /\ err' = "FrequencyMismatchError"
             /\ dut_cal' = dut_cal /\ splitter_cal' = splitter_cal
             /\ hist' = hist]_vars

\* the DUT was acquired on another sweep grid than the standards and the
\* first apply_cal failed
C10_Witness ==
    /\ pc = "error" /\ err = "FrequencyMismatchError"
    /\ cal # None /\ cal.coefs # None
    /\ dut_raw_rev # None
    /\ dut_raw_rev.frequency # cal.coefs.frequency
    /\ Ev("apply") = {}

(***************************************************************************)
(* The calibration constructor on arbitrary lists of standards             *)
(***************************************************************************)
\* the k-th standard of a list: short, open, match, thru, short, ...
StdAt(k) ==
    CASE k % 4 = 1 -> "short"
      [] k % 4 = 2 -> "open"
      [] k % 4 = 3 -> "match"
      [] OTHER     -> "thru"

\* n ideals of a line on grid g; the one at position bad (if any) is a 1-port
IdealList(n, bad, g) ==
    [k \in 1..n |->
        [Ideal(DefinedGammaZ0(g, 50), StdAt(k)) EXCEPT
            !.nports = IF k = bad THEN 1 ELSE 2]]

\* n raw standards stored on grid g; the one at position bad is a 1-port
MeasList(n, bad, g) ==
    [k \in 1..n |->
        [StdFile(RawName(StdAt(k)), g) EXCEPT
            !.nports = IF k = bad THEN 1 ELSE 2]]

InitCal ==
    /\ pc = "cal_new"
    /\ err = "none"
    /\ dut = Generic
    /\ sweep = 0
    /\ files = << >>
    /\ i_src = 0 /\ i_sink = 0 /\ i_recv = 0
    /\ nw_raw = None
    /\ short_raw = None /\ open_raw = None /\ match_raw = None /\ thru_raw = None
    /\ line = None /\ cal = None
    /\ splitter_cal = None
    /\ dut_raw_fwd = None /\ dut_raw_rev = None /\ dut_cal = None
    /\ hist = << >>
    /\ f_start = None /\ f_stop = None /\ f_step = None /\ num = None
    /\ Z_0 = None /\ Z_L = None /\ Gamma0 = None /\ swr = None
    /\ todo = {} /\ ref = None

\* cal = TwoPortOnePath(ideals=..., measured=..., n_thrus=1, source_port=1)
\* for any two lists of standards
NewCal ==
    /\ pc = "cal_new"
    /\ \E ni \in 1..MaxStds, nm \in 1..MaxStds,
          bi \in 0..MaxStds, bm \in 0..MaxStds, g \in Sweeps :
          LET ideals   == IdealList(ni, bi, g)
              measured == MeasList(nm, bm, g)
          IN  /\ Log([op |-> "new", ideals |-> ideals, measured |-> measured])
              /\ IF CalError(ideals, measured) = "none"
                 THEN /\ cal' = TwoPortOnePath(ideals, measured,
                                               n_thrus, source_port)
                      /\ pc' = "cal_run"
                      /\ err' = err
                 ELSE /\ Abort(CalError(ideals, measured))
                      /\ cal' = cal
    /\ UNCHANGED <<dut, i_src, short_raw, open_raw, match_raw, thru_raw, line>>
    /\ UNCHANGED acq_vars /\ UNCHANGED asm_vars /\ UNCHANGED other_vars

NextCal == NewCal \/ RunCal

SpecCal == InitCal /\ [][NextCal]_vars

\* C11: Insufficient standards are rejected.  Creating the one-path
\* calibration with a number of ideals different from the number of measured
\* standards, or with a standard that is not a 2-port, signals
\* InsufficientDataError; no calibration object and no error terms result.
C11_InsufficientRejected ==
    \A n \in Ev("new") :
        (\/ Len(hist[n].ideals) # Len(hist[n].measured)
         \/ \E k \in 1..Len(hist[n].ideals) : hist[n].ideals[k].nports # 2
         \/ \E k \in 1..Len(hist[n].measured) : hist[n].measured[k].nports # 2)
            => /\ pc = "error"
               /\ err = "InsufficientDataError"
               /\ cal = None
               /\ Ev("run") = {}

\* four 2-port ideals against four measured standards one of which is a
\* 1-port: rejected
C11_Witness ==
    /\ pc = "error" /\ err = "InsufficientDataError"
    /\ \E n \in Ev("new") :
          /\ Len(hist[n].ideals) = 4 /\ Len(hist[n].measured) = 4
          /\ \A k \in 1..4 : hist[n].ideals[k].nports = 2
          /\ hist[n].measured[2].nports = 1

(***************************************************************************)
(* Transmission-line tutorial: reflection coefficient and SWR, computed    *)
(* over the rationals.  A rational is <<numerator, denominator>> in lowest *)
(* terms with a positive denominator.                                      *)
(***************************************************************************)
Abs(x) == IF x < 0 THEN -x ELSE x

RECURSIVE GCD(_, _)
GCD(a, b) == IF b = 0 THEN a ELSE GCD(b, a % b)

Rat(n, d) ==
    LET g == GCD(Abs(n), Abs(d))
        sg == IF d < 0 THEN -1 ELSE 1
    IN  <<(sg * n) \div g, (sg * d) \div g>>

RAdd(x, y) == Rat(x[1] * y[2] + y[1] * x[2], x[2] * y[2])
RSub(x, y) == Rat(x[1] * y[2] - y[1] * x[2], x[2] * y[2])
RDiv(x, y) == Rat(x[1] * y[2], x[2] * y[1])
RAbs(x) == <<Abs(x[1]), x[2]>>
One == <<1, 1>>

\* rf.zl_2_Gamma0(z0, zl): (zl - z0) / (zl + z0)
zl_2_Gamma0(z0, zl) == Rat(zl - z0, zl + z0)

\* rf.zl_2_swr(z0, zl): (1 + |Gamma0|) / (1 - |Gamma0|)
zl_2_swr(z0, zl) ==
    RDiv(RAdd(One, RAbs(zl_2_Gamma0(z0, zl))),
         RSub(One, RAbs(zl_2_Gamma0(z0, zl))))

\* the constants of the problem: Z_0 = 75 Ohm, Z_L = 150 Ohm
Problem == [Z_0 |-> 75, Z_L |-> 150]

Impedances == {25 * k : k \in 1..MaxZ}

\* a fresh kernel about to run the cell at position p: nothing is assigned
Fresh(p) ==
    /\ pc = p
    /\ err = "none"
    /\ dut = Generic
    /\ sweep = 0
    /\ files = << >>
    /\ i_src = 0 /\ i_sink = 0 /\ i_recv = 0
    /\ nw_raw = None
    /\ short_raw = None /\ open_raw = None /\ match_raw = None /\ thru_raw = None
    /\ line = None /\ cal = None
    /\ splitter_cal = None
    /\ dut_raw_fwd = None /\ dut_raw_rev = None /\ dut_cal = None
    /\ hist = << >>
    /\ f_start = None /\ f_stop = None /\ f_step = None /\ num = None
    /\ Z_0 = None /\ Z_L = None /\ Gamma0 = None /\ swr = None
    /\ todo = {} /\ ref = None

InitTline == Fresh("tl_const")

\* Z_0 = 75; Z_L = 150 (or any other pair of impedances)
SetProblem ==
    /\ pc = "tl_const"
    /\ \E a \in Impedances \cup {Problem.Z_0},
          b \in Impedances \cup {Problem.Z_L} : Z_0' = a /\ Z_L' = b
    /\ pc' = "tl_gamma"
    /\ UNCHANGED <<err, dut, i_src, hist, Gamma0, swr, todo, ref>>
    /\ UNCHANGED sweep_vars
    /\ UNCHANGED acq_vars /\ UNCHANGED cal_vars /\ UNCHANGED asm_vars

\* the call with the two arguments exchanged
CalcGamma0_Swapped ==
    /\ pc = "tl_gamma"
    /\ Gamma0' = zl_2_Gamma0(Z_L, Z_0)
    /\ pc' = "tl_swr"
    /\ UNCHANGED <<err, dut, i_src, hist, Z_0, Z_L, swr, todo, ref>>
    /\ UNCHANGED sweep_vars
    /\ UNCHANGED acq_vars /\ UNCHANGED cal_vars /\ UNCHANGED asm_vars

\* Gamma0 = rf.zl_2_Gamma0(Z_0, Z_L)
CalcGamma0 ==
    /\ pc = "tl_gamma"
    /\ Gamma0' = zl_2_Gamma0(Z_0, Z_L)
    /\ pc' = "tl_swr"
    /\ UNCHANGED <<err, dut, i_src, hist, Z_0, Z_L, swr, todo, ref>>
    /\ UNCHANGED sweep_vars
    /\ UNCHANGED acq_vars /\ UNCHANGED cal_vars /\ UNCHANGED asm_vars

\* rf.zl_2_swr(Z_0, Z_L)
CalcSwr ==
    /\ pc = "tl_swr"
    /\ swr' = zl_2_swr(Z_0, Z_L)
    /\ pc' = "tl_done"
    /\ UNCHANGED <<err, dut, i_src, hist, Z_0, Z_L, Gamma0, todo, ref>>
    /\ UNCHANGED sweep_vars
    /\ UNCHANGED acq_vars /\ UNCHANGED cal_vars /\ UNCHANGED asm_vars

NextTline == SetProblem \/ CalcGamma0 \/ CalcSwr

SpecTline == InitTline /\ [][NextTline]_vars

\* C14: Exact reflection values of the tutorial scenario.  With Z_0 = 75 and
\* Z_L = 150 the reflection coefficient computed is exactly 1/3 and the
\* standing wave ratio computed is exactly 2, as rationals.
C14_ExactReflection ==
    /\ pc \in {"tl_swr", "tl_done"} =>
          ((Z_0 = 75 /\ Z_L = 150) => Gamma0 = <<1, 3>>)
    /\ pc = "tl_done" =>
          ((Z_0 = 75 /\ Z_L = 150) => swr = <<2, 1>>)

\* the tutorial's constants, both values computed
C14_Witness ==
    /\ pc = "tl_done"
    /\ Z_0 = Problem.Z_0 /\ Z_L = Problem.Z_L
    /\ Gamma0 = <<1, 3>> /\ swr = <<2, 1>>

(***************************************************************************)
(* Sweep configuration (cell 3ec0342f), frequencies in MHz                 *)
(***************************************************************************)
\* int(x) of a rational x: the fraction is dropped, towards zero
int(x) == IF x[1] >= 0 THEN x[1] \div x[2] ELSE -((-x[1]) \div x[2])

\* f_start = 1e6; f_stop = 4.4e9; f_step = 1e6
NotebookSweep == [f_start |-> 1, f_stop |-> 4400, f_step |-> 1]

\* frequencies a sweep may be configured with
Freqs == 1..MaxF

InitSweep == Fresh("sw_cfg")

\* f_start = ...; f_stop = ...; f_step = ...
SetSweepRange ==
    /\ pc = "sw_cfg"
    /\ \E a \in Freqs \cup {NotebookSweep.f_start},
          b \in Freqs \cup {NotebookSweep.f_stop},
          d \in Freqs \cup {NotebookSweep.f_step} :
            /\ a <= b
            /\ f_start' = a /\ f_stop' = b /\ f_step' = d
    /\ pc' = "sw_num"
    /\ UNCHANGED <<err, dut, i_src, hist, num, todo, ref>>
    /\ UNCHANGED tline_vars
    /\ UNCHANGED acq_vars /\ UNCHANGED cal_vars /\ UNCHANGED asm_vars

\* the count without its end point: int((f_stop - f_start) / f_step)
CalcNum_NoEndPoint ==
    /\ pc = "sw_num"
    /\ num' = int(Rat(f_stop - f_start, f_step))
    /\ pc' = "sw_done"
    /\ UNCHANGED <<err, dut, i_src, hist, f_start, f_stop, f_step, todo, ref>>
    /\ UNCHANGED tline_vars
    /\ UNCHANGED acq_vars /\ UNCHANGED cal_vars /\ UNCHANGED asm_vars

\* num = int(1 + (f_stop - f_start) / f_step)
CalcNum ==
    /\ pc = "sw_num"
    /\ num' = int(RAdd(One, Rat(f_stop - f_start, f_step)))
    /\ pc' = "sw_done"
    /\ UNCHANGED <<err, dut, i_src, hist, f_start, f_stop, f_step, todo, ref>>
    /\ UNCHANGED tline_vars
    /\ UNCHANGED acq_vars /\ UNCHANGED cal_vars /\ UNCHANGED asm_vars

NextSweep == SetSweepRange \/ CalcNum

SpecSweep == InitSweep /\ [][NextSweep]_vars

\* spacing of num equally spaced points from f_start to f_stop
Spacing == Rat(f_stop - f_start, num - 1)

\* f_step divides f_stop - f_start
Divides == (f_stop - f_start) % f_step = 0

\* C15: Sweep point count.  For 1 MHz to 4.4 GHz in 1 MHz steps num is 4400;
\* whenever f_step divides f_stop - f_start, the last of num points spaced
\* f_step from f_start is f_stop, and num equally spaced points from f_start
\* to f_stop are spaced exactly f_step.
C15_PointCount ==
    pc = "sw_done" =>
        /\ <<f_start, f_stop, f_step>> = <<1, 4400, 1>> => num = 4400
        /\ Divides =>
              /\ f_start + (num - 1) * f_step = f_stop
              /\ num > 1 => Spacing = <<f_step, 1>>

\* the notebook's sweep, counted
C15_Witness ==
    /\ pc = "sw_done"
    /\ f_start = NotebookSweep.f_start
    /\ f_stop = NotebookSweep.f_stop
    /\ f_step = NotebookSweep.f_step
    /\ num = 4400

(***************************************************************************)
(* The assembly over the 6 unordered port pairs, taken in any order and    *)
(* either way round, from the files and the calibration of a finished run  *)
(***************************************************************************)
UnorderedPairs == {<<i, j>> \in Ports \X Ports : i < j}

\* the body of the loop for (src, recv): both loads, the correction and the
\* four assignments, on the aggregate agg
Iteration(agg, fs, c, src, recv) ==
    LET out == apply_cal(c, Network(fs, FwdFileName(src, recv)),
                            Network(fs, RevFileName(src, recv)))
        w11 == [agg EXCEPT !.s[src][src] = out.s[0][0]]
        w21 == [w11 EXCEPT !.s[recv][src] = out.s[1][0]]
        w12 == [w21 EXCEPT !.s[src][recv] = out.s[0][1]]
    IN  [w12 EXCEPT !.s[recv][recv] = out.s[1][1]]

\* a second, empty aggregate once the notebook's loop has finished
RefStart ==
    /\ pc = "done"
    /\ ref = None
    /\ ref' = [kind |-> "network", name |-> "",
               frequency |-> short_raw.frequency, nports |-> n_asm,
               s |-> zeros(n_asm)]
    /\ todo' = UnorderedPairs
    /\ UNCHANGED <<pc, err, dut, i_src, hist>>
    /\ UNCHANGED sweep_vars /\ UNCHANGED tline_vars
    /\ UNCHANGED acq_vars /\ UNCHANGED cal_vars /\ UNCHANGED asm_vars

\* one more pair, whichever, with either port as the source
RefIteration ==
    /\ pc = "done"
    /\ ref # None
    /\ \E p \in todo : \E src \in {p[1], p[2]} : \E recv \in {p[1], p[2]} \ {src} :
          /\ ref' = Iteration(ref, files, cal, src, recv)
          /\ todo' = todo \ {p}
    /\ UNCHANGED <<pc, err, dut, i_src, hist>>
    /\ UNCHANGED sweep_vars /\ UNCHANGED tline_vars
    /\ UNCHANGED acq_vars /\ UNCHANGED cal_vars /\ UNCHANGED asm_vars

NextRef == Next \/ RefStart \/ RefIteration

SpecRef == Init /\ [][NextRef]_vars

\* apply_cal((a, b)) is the port-flipped result of apply_cal((b, a)), for the
\* two calls made on ports i and j
FlipSymmetric(i, j) ==
    \A a \in ApplyOf(<<i, j>>), b \in ApplyOf(<<j, i>>) :
        \A r \in range(2), c \in range(2) :
            hist[a].out.s[r][c] = hist[b].out.s[1 - r][1 - c]

\* C16: Off-diagonal double write is order-independent.  Each off-diagonal
\* entry (i,j) is written exactly twice by the assembly loop, as S21 of
\* iteration (i_src=j, i_recv=i) and as S12 of iteration (i_src=i, i_recv=j);
\* the two iterations correct the same two raw measurements dut_raw_ij and
\* dut_raw_ji with forward and reverse exchanged; when apply_cal of the
\* exchanged pair is the port-flipped result, both writes store the same
\* value, and the off-diagonal entries after the loop are those of a loop
\* over the 6 unordered pairs in any order.
C16_OffDiagonal ==
    pc = "done" =>
        \A i \in Ports : \A j \in Ports \ {i} :
            /\ Cardinality(WritesTo(i, j)) = 2
            /\ Cardinality(WritesOf(<<j, i>>, i, j)) = 1
            /\ Cardinality(WritesOf(<<i, j>>, i, j)) = 1
            /\ \A w \in WritesOf(<<j, i>>, i, j) : hist[w].el = <<1, 0>>
            /\ \A w \in WritesOf(<<i, j>>, i, j) : hist[w].el = <<0, 1>>
            /\ Cardinality(ApplyOf(<<i, j>>)) = 1
            /\ \A a \in ApplyOf(<<i, j>>), b \in ApplyOf(<<j, i>>) :
                  /\ hist[a].fwd = hist[b].rev
                  /\ hist[a].rev = hist[b].fwd
                  /\ hist[a].fwd.name = Format2(j + 1, i + 1)
                  /\ hist[a].rev.name = Format2(i + 1, j + 1)
            /\ FlipSymmetric(i, j) =>
                  /\ \A v \in WritesTo(i, j), w \in WritesTo(i, j) :
                        hist[v].val = hist[w].val
                  /\ (ref.kind = "network" /\ todo = {}) =>
                        ref.s[i][j] = splitter_cal.s[i][j]

\* both loops have finished on a device whose 16 parameters all differ:
\* entry (0,1) was written as S21 of iteration (1,0) and as S12 of iteration
\* (0,1), and the loop over the unordered pairs arrived at the same entry
C16_Witness ==
    /\ pc = "done"
    /\ dut = Generic
    /\ ref.kind = "network" /\ todo = {}
    /\ FlipSymmetric(0, 1)
    /\ Cardinality(WritesTo(0, 1)) = 2
    /\ ref.s[0][1] = splitter_cal.s[0][1]
    /\ ref.s[0][1] # ref.s[1][0]
    /\ ref.s[0][1] # Zero

====
